---------------------------- MODULE Spec2Model ----------------------------
(***************************************************************************)
(* Model of sienna_test_gen_script.py: the float32 <-> hex codec, the     *)
(* activation, max-pool and dropout stages, and the pipeline               *)
(* generate_pipeline_test_vectors that chains them and writes the test     *)
(* vector files.                                                           *)
(*                                                                         *)
(* Conventions.                                                            *)
(*  - A float32 is its IEEE-754 pattern [s, e, m] in the codec;            *)
(*    a matrix element is an integer (every element the modelled matrix    *)
(*    kinds produce is an integer-valued float32 of magnitude < 2^24, so   *)
(*    float32 arithmetic on them is exact).  np.random.uniform is drawn on *)
(*    the integer grid of its range, and the sigmoid and tanh activations, *)
(*    whose values are not integers, are outside the modelled inputs.      *)
(*  - A string is a sequence of one-character strings.                     *)
(*  - A matrix is [rows, cols, at], at indexed from 0 as numpy does.       *)
(*  - A call ends in [kind |-> "ok", val |-> v] or                         *)
(*    [kind |-> "error", exc |-> name of the Python exception].            *)
(***************************************************************************)
EXTENDS Integers, Sequences, FiniteSets, TLC

VARIABLES
    \* ---- one call of a pure function (FnSpec)
    fpc,            \* "call" before the call, "ret" after it
    fcall,          \* the function called and its arguments
    fres,           \* what the call returned or raised
    \* ---- generate_pipeline_test_vectors (Spec, SpecRerun)
    pc,             \* position in the function body
    cfg,            \* the keyword arguments of the call
    rng,            \* numpy's global random state
    A, B, C, activated, maxpool_input, pooled, final_output,
    files,          \* output_dir: file name -> [exists, lines]
    ret,            \* [kind |-> "none"], the returned dictionary, or the exception
    last            \* outputs of the previous run with the same arguments

fvars == <<fpc, fcall, fres>>
pvars == <<pc, cfg, rng, A, B, C, activated, maxpool_input, pooled,
           final_output, files, ret, last>>
vars == <<fvars, pvars>>

\* An optional argument: None, or a value v given as Some(v)
None == <<>>
Some(v) == <<v>>

Ok(v) == [kind |-> "ok", val |-> v]
Err(e) == [kind |-> "error", exc |-> e]

Min(a, b) == IF a <= b THEN a ELSE b
Max(a, b) == IF a >= b THEN a ELSE b

-----------------------------------------------------------------------------
(* Float codec: float_to_hex, hex_to_float                                 *)

\* The interpreter builds: ">f" converts between the C double of a Python
\* float and a C float.  On builds that convert in hardware (CPython 3.11 on
\* x86-64) a signaling NaN comes out quieted; builds that copy the payload
\* by hand keep it.
Builds == {"quiets", "keeps"}

Pow2(n) == 2 ^ n

\* A float32 is [s, e, m]: its sign bit, 8 exponent bits and 23 mantissa bits
Float32(s, e, m) == [s |-> s, e |-> e, m |-> m]
IsNaN(x) == x.e = 255 /\ x.m # 0
IsSignalingNaN(x) == IsNaN(x) /\ x.m < Pow2(22)

\* double <-> float conversion of the value whose float32 pattern is x
CFloatConv(x, build) ==
    IF build = "quiets" /\ IsSignalingNaN(x)
      THEN Float32(x.s, x.e, x.m + Pow2(22))
    ELSE x

HexDigits == <<"0", "1", "2", "3", "4", "5", "6", "7",
               "8", "9", "a", "b", "c", "d", "e", "f">>
UpperDigits == <<"A", "B", "C", "D", "E", "F">>
\* Py_ISSPACE (the vertical tab, which a TLA+ string cannot hold, is left out)
Whitespace == {" ", "\t", "\n", "\r", "\f"}

\* struct.pack(">f", f): the four bytes, most significant first
pack_f(f, build) ==
    LET x == CFloatConv(f, build)
    IN  << x.s * 128 + x.e \div 2,
           (x.e % 2) * 128 + x.m \div Pow2(16),
           (x.m \div 256) % 256,
           x.m % 256 >>

\* f"{b:02x}"
Format02x(b) == << HexDigits[(b \div 16) + 1], HexDigits[(b % 16) + 1] >>

RECURSIVE Join(_)
Join(ss) == IF ss = <<>> THEN <<>> ELSE Head(ss) \o Join(Tail(ss))

float_to_hex(f, build) ==
    Join([k \in 1..4 |-> Format02x(pack_f(f, build)[k])])

\* _PyLong_DigitValue: 0..15 for a hex digit of either case, >= 16 otherwise
DigitValue(c) ==
    IF \E k \in 1..16 : HexDigits[k] = c
      THEN (CHOOSE k \in 1..16 : HexDigits[k] = c) - 1
    ELSE IF \E k \in 1..6 : UpperDigits[k] = c
      THEN (CHOOSE k \in 1..6 : UpperDigits[k] = c) + 9
    ELSE 37

RECURSIVE SkipSpaces(_)
SkipSpaces(s) ==
    IF s # <<>> /\ Head(s) \in Whitespace THEN SkipSpaces(Tail(s)) ELSE s

\* bytes.fromhex: whitespace is skipped before each byte, then two hex
\* digits are required.  Ok(the bytes) or Err("ValueError").
RECURSIVE fromhex(_)
fromhex(s) ==
    LET t == SkipSpaces(s)
    IN  IF t = <<>> THEN Ok(<<>>)
        ELSE IF DigitValue(t[1]) >= 16 THEN Err("ValueError")
        ELSE IF Len(t) < 2 THEN Err("ValueError")
        ELSE IF DigitValue(t[2]) >= 16 THEN Err("ValueError")
        ELSE LET rest == fromhex(SubSeq(t, 3, Len(t)))
             IN  IF rest.kind = "error" THEN rest
                 ELSE Ok(<<DigitValue(t[1]) * 16 + DigitValue(t[2])>> \o rest.val)

\* struct.unpack(">f", b)[0]
unpack_f(b, build) ==
    IF Len(b) # 4 THEN Err("struct.error")
    ELSE Ok(CFloatConv(Float32(b[1] \div 128,
                               (b[1] % 128) * 2 + b[2] \div 128,
                               (b[2] % 128) * Pow2(16) + b[3] * 256 + b[4]),
                       build))

hex_to_float(hex_str, build) ==
    LET b == fromhex(hex_str)
    IN  IF b.kind = "error" THEN b ELSE unpack_f(b.val, build)

-----------------------------------------------------------------------------
(* numpy arrays                                                            *)

\* the indices of an r x c array
Cells(r, c) == (0..(r - 1)) \X (0..(c - 1))

Matrix(r, c, at) == [rows |-> r, cols |-> c, at |-> at]

\* the value of an array variable that has not been assigned yet
NoMatrix == [rows |-> -1, cols |-> -1, at |-> <<>>]

\* Python's a // b
FloorDiv(a, b) == IF b > 0 THEN a \div b ELSE (-a) \div (-b)

\* np.pad(m, p, mode="constant", constant_values=0)
np_pad_after_only(m, p) ==
    Matrix(m.rows + 2 * p, m.cols + 2 * p,
           [ij \in Cells(m.rows + 2 * p, m.cols + 2 * p) |->
               IF ij[1] < m.rows /\ ij[2] < m.cols THEN m.at[ij] ELSE 0])
np_pad(m, p) ==
    Matrix(m.rows + 2 * p, m.cols + 2 * p,
           [ij \in Cells(m.rows + 2 * p, m.cols + 2 * p) |->
               IF /\ p <= ij[1] /\ ij[1] < p + m.rows
                  /\ p <= ij[2] /\ ij[2] < p + m.cols
               THEN m.at[<<ij[1] - p, ij[2] - p>>] ELSE 0])

\* m[r0:r1, c0:c1] for 0 <= r0, 0 <= c0: a slice is clipped to the array
Slice(m, r0, r1, c0, c1) ==
    LET a0 == Min(r0, m.rows)
        a1 == Max(a0, Min(r1, m.rows))
        b0 == Min(c0, m.cols)
        b1 == Max(b0, Min(c1, m.cols))
    IN  Matrix(a1 - a0, b1 - b0,
               [ij \in Cells(a1 - a0, b1 - b0) |-> m.at[<<a0 + ij[1], b0 + ij[2]>>]])

Elements(m) == {m.at[ij] : ij \in DOMAIN m.at}

\* m.flatten(): row-major
Flatten(m) ==
    [k \in 1..(m.rows * m.cols) |->
        m.at[<<(k - 1) \div m.cols, (k - 1) % m.cols>>]]

SetMax(S) == CHOOSE v \in S : \A w \in S : w <= v

-----------------------------------------------------------------------------
(* apply_maxpool_2d                                                        *)

\* np.max(window) for each output cell; an empty window makes np.max raise
PoolCells(padded, out_h, out_w, pool_h, pool_w, stride_h, stride_w) ==
    LET window(i, j) == Slice(padded, i * stride_h, i * stride_h + pool_h,
                                      j * stride_w, j * stride_w + pool_w)
        cells == Cells(out_h, out_w)
    IN  IF \E ij \in cells : Elements(window(ij[1], ij[2])) = {}
          THEN Err("ValueError")
        ELSE Ok(Matrix(out_h, out_w,
                       [ij \in cells |-> SetMax(Elements(window(ij[1], ij[2])))]))

\* lines 44-47: a stride that is not given is the window size
DefaultStride(stride_arg, pool) ==
    IF stride_arg = None THEN pool ELSE stride_arg[1]

\* lines 54-55
OutDimCeil(in_dim, pool, stride) == -FloorDiv(-(in_dim - pool), stride) + 1
OutDim(in_dim, pool, stride) == FloorDiv(in_dim - pool, stride) + 1

apply_maxpool_2d(input_matrix, pool_h, pool_w, stride_h_arg, stride_w_arg, padding) ==
    LET stride_h == DefaultStride(stride_h_arg, pool_h)
        stride_w == DefaultStride(stride_w_arg, pool_w)
        padded == IF padding > 0 THEN np_pad(input_matrix, padding)
                  ELSE input_matrix
        in_h == padded.rows
        in_w == padded.cols
    IN  IF stride_h = 0 \/ stride_w = 0 THEN Err("ZeroDivisionError")
        ELSE LET out_h == OutDim(in_h, pool_h, stride_h)
                 out_w == OutDim(in_w, pool_w, stride_w)
             IN  \* np.zeros((out_h, out_w)) refuses a negative dimension
                 IF out_h < 0 \/ out_w < 0 THEN Err("ValueError")
                 ELSE PoolCells(padded, out_h, out_w, pool_h, pool_w,
                                stride_h, stride_w)

-----------------------------------------------------------------------------
(* numpy's global random state                                             *)

\* The Mersenne Twister is stood in for by a full-period generator on a
\* small state: what is modelled is that a draw is a function of the state
\* and moves it, and that np.random.seed sets the state from the seed alone.
RngStep(s) == (5 * s + 3) % 16
np_random_seed(seed) == (7 * seed + 1) % 16

\* the k states of k successive draws from state s
RECURSIVE DrawStates(_, _)
DrawStates(s, k) ==
    IF k <= 0 THEN <<>> ELSE <<RngStep(s)>> \o DrawStates(RngStep(s), k - 1)

StateAfter(s, k) == IF k <= 0 THEN s ELSE DrawStates(s, k)[k]

\* np.random.randint(-3, 4): an integer of -3..3
RandintOf(s) == -3 + (s % 7)
\* np.random.uniform(lo, hi), on the integer grid lo..hi
UniformOf(s, lo, hi) == lo + (s % (hi - lo + 1))
\* np.random.binomial(1, q), q in percent
BinomialOf(s, q) == IF s * 100 < q * 16 THEN 1 ELSE 0

\* the generator states behind an r x c array drawn, row-major, from state s
Drawn(r, c, s) ==
    LET st == DrawStates(s, r * c)
    IN  Matrix(r, c, [ij \in Cells(r, c) |-> st[ij[1] * c + ij[2] + 1]])

RandintMatrix(r, c, s) ==
    LET d == Drawn(r, c, s)
    IN  Matrix(r, c, [ij \in Cells(r, c) |-> RandintOf(d.at[ij])])

UniformMatrix(r, c, s, lo, hi) ==
    LET d == Drawn(r, c, s)
    IN  Matrix(r, c, [ij \in Cells(r, c) |-> UniformOf(d.at[ij], lo, hi)])

BinomialMatrix(r, c, s, q) ==
    LET d == Drawn(r, c, s)
    IN  Matrix(r, c, [ij \in Cells(r, c) |-> BinomialOf(d.at[ij], q)])

-----------------------------------------------------------------------------
(* apply_activation, apply_dropout                                         *)

\* The sigmoid and tanh branches are not modelled (see the conventions).
apply_activation(x, activation_type) ==
    IF activation_type = "relu"
      THEN Matrix(x.rows, x.cols,
                  [ij \in Cells(x.rows, x.cols) |-> Max(0, x.at[ij])])
    ELSE IF activation_type = "none" THEN x
    ELSE x

\* dropout_p in percent; the training branch is modelled where 1/(1-p) is
\* an integer.  [out: the returned array, rng: the global state afterwards]
apply_dropout_masked(x, dropout_p, training_mode, seed, g) ==
    LET g0 == IF seed # None THEN np_random_seed(seed[1]) ELSE g
        mask == BinomialMatrix(x.rows, x.cols, g0, 100 - dropout_p)
    IN  [out |-> Matrix(x.rows, x.cols,
                        [ij \in Cells(x.rows, x.cols) |->
                            (x.at[ij] * mask.at[ij] * 100) \div (100 - dropout_p)]),
         rng |-> StateAfter(g0, x.rows * x.cols)]
apply_dropout(x, dropout_p, training_mode, seed, g) ==
    IF training_mode
      THEN LET g0 == IF seed # None THEN np_random_seed(seed[1]) ELSE g
               mask == BinomialMatrix(x.rows, x.cols, g0, 100 - dropout_p)
           IN  [out |-> Matrix(x.rows, x.cols,
                               [ij \in Cells(x.rows, x.cols) |->
                                   (x.at[ij] * mask.at[ij] * 100)
                                      \div (100 - dropout_p)]),
                rng |-> StateAfter(g0, x.rows * x.cols)]
    ELSE [out |-> x, rng |-> g]

-----------------------------------------------------------------------------
(* generate_pipeline_test_vectors                                          *)

MaxN == 6
MaxWindow == 2
MaxPad == 1

MatrixTypes == {"random", "identity", "ones", "small_int"}
ActivationTypes == {"relu", "none"}
DropoutPs == {0, 50}
ValueRanges == {<<-1, 1>>}
Seeds == {None, Some(42)}
\* the state a fresh interpreter's global generator may be in
FreshRngStates == {4, 9}

FileNames == {"matrix_north.txt", "matrix_west.txt", "expected_output.txt",
              "intermediate_values.txt"}
Absent == [exists |-> FALSE, lines |-> <<>>]

Configs(maxn) ==
    [n : (-1)..maxn, activation_type : ActivationTypes,
     pool_h : 1..MaxWindow, pool_w : 1..MaxWindow, pool_padding : 0..MaxPad,
     dropout_p : DropoutPs, seed : Seeds, matrix_type : MatrixTypes,
     value_range : ValueRanges]

\* float32 pattern of an integer v, |v| < 2^24
RECURSIVE Log2(_)
Log2(m) == IF m < 2 THEN 0 ELSE 1 + Log2(m \div 2)

FloatBits(v) ==
    IF v = 0 THEN Float32(0, 0, 0)
    ELSE LET m == IF v < 0 THEN -v ELSE v
             e == Log2(m)
         IN  Float32(IF v < 0 THEN 1 ELSE 0, 127 + e,
                     (m - Pow2(e)) * Pow2(23 - e))

\* float_to_hex(val) of a matrix element (never a NaN: every build agrees)
HexOfValue(v) == float_to_hex(FloatBits(v), "keeps")

\* np.matmul(a, b)
RECURSIVE DotFrom(_, _, _, _, _)
DotFrom(a, b, i, j, k) ==
    IF k >= a.cols THEN 0
    ELSE a.at[<<i, k>>] * b.at[<<k, j>>] + DotFrom(a, b, i, j, k + 1)

np_matmul(a, b) ==
    Matrix(a.rows, b.cols,
           [ij \in Cells(a.rows, b.cols) |-> DotFrom(a, b, ij[1], ij[2], 0)])

\* lines 131-146: Ok([A, B, rng]) or the error of a negative size
GenerateMatrices(n, matrix_type, value_range, g) ==
    IF n < 0 THEN Err("ValueError")
    ELSE IF matrix_type = "identity"
      THEN LET eye == Matrix(n, n, [ij \in Cells(n, n) |->
                                       IF ij[1] = ij[2] THEN 1 ELSE 0])
           IN  Ok([A |-> eye, B |-> eye, rng |-> g])
    ELSE IF matrix_type = "ones"
      THEN LET ones == Matrix(n, n, [ij \in Cells(n, n) |-> 1])
           IN  Ok([A |-> ones, B |-> ones, rng |-> g])
    ELSE IF matrix_type = "small_int"
      THEN Ok([A |-> RandintMatrix(n, n, g),
               B |-> RandintMatrix(n, n, StateAfter(g, n * n)),
               rng |-> StateAfter(g, 2 * n * n)])
    ELSE Ok([A |-> UniformMatrix(n, n, g, value_range[1], value_range[2]),
             B |-> UniformMatrix(n, n, StateAfter(g, n * n),
                                 value_range[1], value_range[2]),
             rng |-> StateAfter(g, 2 * n * n)])

in_rows == 5
in_cols == 5

\* line 167
ExtractRegionWhole(act) == act
ExtractRegion(act) == Slice(act, 0, in_rows, 0, in_cols)

HexLines(m) == [k \in 1..(m.rows * m.cols) |-> HexOfValue(Flatten(m)[k])]

Fail(e) ==
    /\ pc' = "error"
    /\ ret' = Err(e)

\* lines 119-122
SeedSkipped ==
    /\ pc = "start"
    /\ pc' = "generate"
    /\ UNCHANGED <<fvars, cfg, rng, A, B, C, activated, maxpool_input, pooled,
                   final_output, files, ret, last>>
Seed ==
    /\ pc = "start"
    /\ rng' = IF cfg.seed # None THEN np_random_seed(cfg.seed[1]) ELSE rng
    /\ pc' = "generate"
    /\ UNCHANGED <<fvars, cfg, A, B, C, activated, maxpool_input, pooled, final_output,
                   files, ret, last>>

\* lines 131-146
Generate ==
    /\ pc = "generate"
    /\ LET g == GenerateMatrices(cfg.n, cfg.matrix_type, cfg.value_range, rng)
       IN  IF g.kind = "error"
             THEN Fail(g.exc) /\ UNCHANGED <<A, B, rng>>
           ELSE /\ A' = g.val.A
                /\ B' = g.val.B
                /\ rng' = g.val.rng
                /\ pc' = "matmul"
                /\ ret' = ret
    /\ UNCHANGED <<fvars, cfg, C, activated, maxpool_input, pooled, final_output,
                   files, last>>

\* line 150
MatMul ==
    /\ pc = "matmul"
    /\ C' = np_matmul(A, B)
    /\ pc' = "activation"
    /\ UNCHANGED <<fvars, cfg, rng, A, B, activated, maxpool_input, pooled,
                   final_output, files, ret, last>>

\* line 154
Activation ==
    /\ pc = "activation"
    /\ activated' = apply_activation(C, cfg.activation_type)
    /\ pc' = "maxpool"
    /\ UNCHANGED <<fvars, cfg, rng, A, B, C, maxpool_input, pooled, final_output,
                   files, ret, last>>

\* lines 164-168
MaxPool ==
    /\ pc = "maxpool"
    /\ maxpool_input' = ExtractRegion(activated)
    /\ LET r == apply_maxpool_2d(maxpool_input', cfg.pool_h, cfg.pool_w,
                                 None, None, cfg.pool_padding)
       IN  IF r.kind = "error"
             THEN Fail(r.exc) /\ UNCHANGED pooled
           ELSE /\ pooled' = r.val
                /\ pc' = "dropout"
                /\ ret' = ret
    /\ UNCHANGED <<fvars, cfg, rng, A, B, C, activated, final_output, files, last>>

\* line 172
Dropout ==
    /\ pc = "dropout"
    /\ LET d == apply_dropout(pooled, cfg.dropout_p, FALSE, None, rng)
       IN  /\ final_output' = d.out
           /\ rng' = d.rng
    /\ pc' = "write_north"
    /\ UNCHANGED <<fvars, cfg, A, B, C, activated, maxpool_input, pooled, files, ret,
                   last>>

WriteFile(name, lines) ==
    files' = [files EXCEPT ![name] = [exists |-> TRUE, lines |-> lines]]

\* lines 178-182
WriteNorth ==
    /\ pc = "write_north"
    /\ WriteFile("matrix_north.txt", HexLines(A))
    /\ pc' = "write_west"
    /\ UNCHANGED <<fvars, cfg, rng, A, B, C, activated, maxpool_input, pooled,
                   final_output, ret, last>>

\* lines 185-189
WriteWest ==
    /\ pc = "write_west"
    /\ WriteFile("matrix_west.txt", HexLines(B))
    /\ pc' = "write_expected"
    /\ UNCHANGED <<fvars, cfg, rng, A, B, C, activated, maxpool_input, pooled,
                   final_output, ret, last>>

\* lines 194-199: open() creates the file, then flatten()[0] is evaluated
WriteExpected ==
    /\ pc = "write_expected"
    /\ IF Flatten(final_output) = <<>>
         THEN /\ WriteFile("expected_output.txt", <<>>)
              /\ Fail("IndexError")
       ELSE /\ WriteFile("expected_output.txt",
                         <<HexOfValue(Flatten(final_output)[1])>>)
            /\ pc' = "write_debug"
            /\ ret' = ret
    /\ UNCHANGED <<fvars, cfg, rng, A, B, C, activated, maxpool_input, pooled,
                   final_output, last>>

\* lines 202-234: the previews, in the order they are dumped
WriteDebug ==
    /\ pc = "write_debug"
    /\ WriteFile("intermediate_values.txt",
                 << Slice(A, 0, 3, 0, 3), Slice(B, 0, 3, 0, 3),
                    Slice(C, 0, 3, 0, 3), Slice(activated, 0, 3, 0, 3),
                    maxpool_input, pooled, final_output,
                    Flatten(final_output)[1],
                    HexOfValue(Flatten(final_output)[1]) >>)
    /\ pc' = "summary"
    /\ UNCHANGED <<fvars, cfg, rng, A, B, C, activated, maxpool_input, pooled,
                   final_output, ret, last>>

\* lines 237-252: the preview prints A[0,0], B[0,0], C[0,0]
SummaryUnindexed ==
    /\ pc = "summary"
    /\ pc' = "return"
    /\ UNCHANGED <<fvars, cfg, rng, A, B, C, activated, maxpool_input, pooled,
                   final_output, files, ret, last>>
Summary ==
    /\ pc = "summary"
    /\ IF <<0, 0>> \notin DOMAIN A.at
         THEN Fail("IndexError")
       ELSE pc' = "return" /\ ret' = ret
    /\ UNCHANGED <<fvars, cfg, rng, A, B, C, activated, maxpool_input, pooled,
                   final_output, files, last>>

\* lines 254-261
Return ==
    /\ pc = "return"
    /\ ret' = Ok([A |-> A, B |-> B, matmul |-> C, activated |-> activated,
                  pooled |-> pooled, final |-> final_output])
    /\ pc' = "done"
    /\ UNCHANGED <<fvars, cfg, rng, A, B, C, activated, maxpool_input, pooled,
                   final_output, files, last>>

\* what a finished run leaves behind
Outcome ==
    [ran |-> TRUE, pc |-> pc, ret |-> ret, A |-> A, B |-> B, C |-> C,
     activated |-> activated, pooled |-> pooled, final_output |-> final_output,
     files |-> files]
NoOutcome == [ran |-> FALSE]

\* The caller calls again, in the same interpreter, with the same arguments
\* (the same output_dir among them: the files of the first run are there).
Rerun ==
    /\ pc \in {"done", "error"}
    /\ last' = Outcome
    /\ pc' = "start"
    /\ A' = NoMatrix /\ B' = NoMatrix /\ C' = NoMatrix
    /\ activated' = NoMatrix /\ maxpool_input' = NoMatrix
    /\ pooled' = NoMatrix /\ final_output' = NoMatrix
    /\ ret' = [kind |-> "none"]
    /\ UNCHANGED <<fvars, cfg, rng, files>>

FnIdle ==
    /\ fpc = "idle"
    /\ fcall = [fn |-> "none"]
    /\ fres = [kind |-> "none"]

InitRun(maxn) ==
    /\ pc = "start"
    /\ cfg \in Configs(maxn)
    /\ rng \in FreshRngStates
    /\ A = NoMatrix /\ B = NoMatrix /\ C = NoMatrix
    /\ activated = NoMatrix /\ maxpool_input = NoMatrix
    /\ pooled = NoMatrix /\ final_output = NoMatrix
    /\ files = [f \in FileNames |-> Absent]
    /\ ret = [kind |-> "none"]
    /\ last = NoOutcome
    /\ FnIdle

Init == InitRun(MaxN)

Next ==
    \/ Seed \/ Generate \/ MatMul \/ Activation \/ MaxPool \/ Dropout
    \/ WriteNorth \/ WriteWest \/ WriteExpected \/ WriteDebug
    \/ Summary \/ Return

Spec == Init /\ [][Next]_vars

-----------------------------------------------------------------------------
(* One call of float_to_hex, hex_to_float, apply_maxpool_2d, apply_dropout *)

FnMaxDim == 3
FnMaxWindow == 3
MaxStride == 2

SamplePatterns ==
    {Float32(s, e, m) : s \in 0..1, e \in {0, 1, 127, 254, 255},
                        m \in {0, 1, Pow2(22) - 1, Pow2(22), Pow2(22) + 1,
                               2870767, Pow2(23) - 1}}

Insert(h, i, c) == SubSeq(h, 1, i) \o <<c>> \o SubSeq(h, i + 1, Len(h))
Delete(h, i) == SubSeq(h, 1, i - 1) \o SubSeq(h, i + 1, Len(h))
Replace(h, i, c) == [h EXCEPT ![i] = c]

PerturbChars == {"0", "F", "g", " ", "\n"}

\* an encoding, and every string one insertion, deletion or replacement away
Perturbed(h) ==
    {h} \cup {Insert(h, i, c) : i \in 0..Len(h), c \in PerturbChars}
        \cup {Delete(h, i) : i \in 1..Len(h)}
        \cup {Replace(h, i, c) : i \in 1..Len(h), c \in PerturbChars}

EncodeCalls ==
    {[fn |-> "float_to_hex", f |-> x, build |-> b] :
        x \in SamplePatterns, b \in Builds}

DecodeCalls ==
    {[fn |-> "hex_to_float", hex_str |-> h, build |-> b, origin |-> None] :
        h \in UNION {Perturbed(float_to_hex(x, "keeps")) : x \in SamplePatterns},
        b \in Builds}

\* arrays as np.random.randint(-3, 4) and np.random.uniform(-3, -1) fill them
SampleMatrices(maxdim) ==
    {RandintMatrix(r, c, s) : r \in 0..maxdim, c \in 0..maxdim, s \in {4, 9}}
      \cup
    {UniformMatrix(r, c, s, -3, -1) : r \in 0..maxdim, c \in 0..maxdim, s \in {4, 9}}

Strides == {None} \cup {Some(k) : k \in 1..MaxStride}

PoolCalls ==
    {[fn |-> "apply_maxpool_2d", input_matrix |-> m, pool_h |-> ph,
      pool_w |-> pw, stride_h |-> sh, stride_w |-> sw, padding |-> p] :
        m \in SampleMatrices(FnMaxDim), ph \in 1..FnMaxWindow,
        pw \in 1..FnMaxWindow, sh \in Strides, sw \in Strides, p \in 0..MaxPad}

DropoutCalls ==
    {[fn |-> "apply_dropout", x |-> m, dropout_p |-> p, training_mode |-> t,
      seed |-> sd, rng |-> g] :
        m \in SampleMatrices(2), p \in DropoutPs, t \in BOOLEAN,
        sd \in Seeds, g \in FreshRngStates}

RunIdle ==
    /\ pc = "idle"
    /\ cfg = [n |-> 0]
    /\ rng = 0
    /\ A = NoMatrix /\ B = NoMatrix /\ C = NoMatrix
    /\ activated = NoMatrix /\ maxpool_input = NoMatrix
    /\ pooled = NoMatrix /\ final_output = NoMatrix
    /\ files = [f \in FileNames |-> Absent]
    /\ ret = [kind |-> "none"]
    /\ last = NoOutcome

InitFn(calls) ==
    /\ fpc = "call"
    /\ fcall \in calls
    /\ fres = [kind |-> "none"]
    /\ RunIdle

CallFloatToHex ==
    /\ fpc = "call"
    /\ fcall.fn = "float_to_hex"
    /\ fres' = Ok(float_to_hex(fcall.f, fcall.build))
    /\ fpc' = "ret"
    /\ UNCHANGED <<fcall, pvars>>

\* the caller decodes what float_to_hex returned
DecodeEncoded ==
    /\ fpc = "ret"
    /\ fcall.fn = "float_to_hex"
    /\ fcall' = [fn |-> "hex_to_float", hex_str |-> fres.val,
                 build |-> fcall.build, origin |-> Some(fcall.f)]
    /\ fres' = [kind |-> "none"]
    /\ fpc' = "call"
    /\ UNCHANGED pvars

CallHexToFloat ==
    /\ fpc = "call"
    /\ fcall.fn = "hex_to_float"
    /\ fres' = hex_to_float(fcall.hex_str, fcall.build)
    /\ fpc' = "ret"
    /\ UNCHANGED <<fcall, pvars>>

CallMaxpool ==
    /\ fpc = "call"
    /\ fcall.fn = "apply_maxpool_2d"
    /\ fres' = apply_maxpool_2d(fcall.input_matrix, fcall.pool_h, fcall.pool_w,
                                fcall.stride_h, fcall.stride_w, fcall.padding)
    /\ fpc' = "ret"
    /\ UNCHANGED <<fcall, pvars>>

CallDropout ==
    /\ fpc = "call"
    /\ fcall.fn = "apply_dropout"
    /\ fres' = Ok(apply_dropout(fcall.x, fcall.dropout_p, fcall.training_mode,
                                fcall.seed, fcall.rng))
    /\ fpc' = "ret"
    /\ UNCHANGED <<fcall, pvars>>

FnInit == InitFn(EncodeCalls \cup DecodeCalls \cup PoolCalls \cup DropoutCalls)

FnNext ==
    \/ CallFloatToHex \/ DecodeEncoded \/ CallHexToFloat
    \/ CallMaxpool \/ CallDropout

FnSpec == FnInit /\ [][FnNext]_vars

\* A run of the pipeline, or one call of apply_dropout
DropoutInit == Init \/ InitFn(DropoutCalls)
DropoutNext == Next \/ CallDropout
DropoutSpec == DropoutInit /\ [][DropoutNext]_vars

\* Runs of the pipeline repeated with the same arguments
RerunMaxN == 2
RerunInit == InitRun(RerunMaxN)
RerunNext == Next \/ Rerun
SpecRerun == RerunInit /\ [][RerunNext]_vars

-----------------------------------------------------------------------------
(* Properties of apply_maxpool_2d (FnSpec)                                 *)

PoolReturned == fpc = "ret" /\ fcall.fn = "apply_maxpool_2d"

\* the claim's own reading of the arguments
ArgH == fcall.input_matrix.rows
ArgW == fcall.input_matrix.cols
ArgSh == IF fcall.stride_h = None THEN fcall.pool_h ELSE fcall.stride_h[1]
ArgSw == IF fcall.stride_w = None THEN fcall.pool_w ELSE fcall.stride_w[1]
WindowFits ==
    /\ fcall.pool_h <= ArgH + 2 * fcall.padding
    /\ fcall.pool_w <= ArgW + 2 * fcall.padding

\* the input surrounded by p rows and columns of zero
PaddedAt(r, c) ==
    LET p == fcall.padding
    IN  IF /\ p <= r /\ r < p + ArgH
           /\ p <= c /\ c < p + ArgW
        THEN fcall.input_matrix.at[<<r - p, c - p>>] ELSE 0

WindowOf(i, j) ==
    ((i * ArgSh)..(i * ArgSh + fcall.pool_h - 1))
        \X ((j * ArgSw)..(j * ArgSw + fcall.pool_w - 1))

InsidePadded(rc) ==
    /\ 0 <= rc[1] /\ rc[1] < ArgH + 2 * fcall.padding
    /\ 0 <= rc[2] /\ rc[2] < ArgW + 2 * fcall.padding

TouchesPadding(i, j) ==
    \E rc \in WindowOf(i, j) :
        ~ (/\ fcall.padding <= rc[1] /\ rc[1] < fcall.padding + ArgH
           /\ fcall.padding <= rc[2] /\ rc[2] < fcall.padding + ArgW)

AllNegative(m) == \A v \in Elements(m) : v < 0

\* C1: a call whose window fits the padded input returns a matrix of
\* floor((H+2p-ph)/sh)+1 rows and floor((W+2p-pw)/sw)+1 columns, a stride
\* that is not given being the window size.
C1_OutputShape ==
    (PoolReturned /\ WindowFits) =>
        /\ fres.kind = "ok"
        /\ fres.val.rows = ((ArgH + 2 * fcall.padding - fcall.pool_h) \div ArgSh) + 1
        /\ fres.val.cols = ((ArgW + 2 * fcall.padding - fcall.pool_w) \div ArgSw) + 1

\* a default stride on one axis, a given one on the other, padding, and a
\* division that rounds
C1_Witness ==
    /\ PoolReturned /\ WindowFits
    /\ fcall.stride_h = None /\ fcall.stride_w = Some(2)
    /\ fcall.padding = 1 /\ fcall.pool_h = 2 /\ fcall.pool_w = 2
    /\ ArgH = 3 /\ ArgW = 3
    /\ fres.kind = "ok" /\ fres.val.rows = 2 /\ fres.val.cols = 2

\* C2: every output cell (i, j) is the maximum of the window of exactly ph
\* rows and pw columns at row i*sh, column j*sw of the zero-padded input; for
\* an all-negative input, a cell whose window touches the padding is 0.
C2_CellIsWindowMax ==
    (PoolReturned /\ fres.kind = "ok") =>
        \A ij \in DOMAIN fres.val.at :
            LET win == WindowOf(ij[1], ij[2])
                v == fres.val.at[ij]
            IN  /\ \A rc \in win : InsidePadded(rc)
                /\ \E rc \in win : PaddedAt(rc[1], rc[2]) = v
                /\ \A rc \in win : PaddedAt(rc[1], rc[2]) <= v
                /\ (AllNegative(fcall.input_matrix) /\ TouchesPadding(ij[1], ij[2]))
                      => v = 0

\* an all-negative input with padding: border cells are 0, an inner one is not
C2_Witness ==
    /\ PoolReturned /\ fres.kind = "ok"
    /\ fcall.padding = 1 /\ ArgH >= 2 /\ ArgW >= 2
    /\ AllNegative(fcall.input_matrix)
    /\ \E ij \in DOMAIN fres.val.at :
          TouchesPadding(ij[1], ij[2]) /\ fres.val.at[ij] = 0
    /\ \E ij \in DOMAIN fres.val.at :
          ~TouchesPadding(ij[1], ij[2]) /\ fres.val.at[ij] < 0

\* C3: a call whose window is taller or wider than the padded input ends in
\* an error and never returns a matrix with zero rows or zero columns.
C3_OversizedWindowIsError ==
    (PoolReturned /\ ~WindowFits) => fres.kind = "error"

-----------------------------------------------------------------------------
(* Properties of the float codec (FnSpec)                                  *)

LowerHex == {HexDigits[k] : k \in 1..16}
AnyHex == LowerHex \cup {UpperDigits[k] : k \in 1..6}

\* the string spells the pattern x, most significant byte first
Spells(h, x) ==
    /\ Len(h) = 8
    /\ \A k \in 1..8 : h[k] \in LowerHex
    /\ DigitValue(h[1]) = x.s * 8 + x.e \div 32
    /\ DigitValue(h[2]) = (x.e \div 2) % 16
    /\ DigitValue(h[3]) = (x.e % 2) * 8 + x.m \div Pow2(20)
    /\ \A k \in 4..8 : DigitValue(h[k]) = (x.m \div Pow2(4 * (8 - k))) % 16

\* C6: hex_to_float(float_to_hex(x)) has the pattern of x for every float32
\* pattern x, float_to_hex(x) is 8 lowercase hex characters spelling x most
\* significant byte first, and +0.0 and -0.0 encode differently.
C6_RoundTrip ==
    /\ (fpc = "ret" /\ fcall.fn = "float_to_hex") =>
          /\ Spells(fres.val, fcall.f)
          /\ (fcall.f = Float32(1, 0, 0)) =>
                fres.val # float_to_hex(Float32(0, 0, 0), fcall.build)
    /\ (fpc = "ret" /\ fcall.fn = "hex_to_float" /\ fcall.origin # None) =>
          fres = Ok(fcall.origin[1])

\* C7: hex_to_float returns a value only for a string of exactly 8 hex
\* characters and fails for every other string.
C7_RejectsMalformed ==
    (fpc = "ret" /\ fcall.fn = "hex_to_float") =>
        (fres.kind = "ok" <=>
            /\ Len(fcall.hex_str) = 8
            /\ \A k \in 1..Len(fcall.hex_str) : fcall.hex_str[k] \in AnyHex)

-----------------------------------------------------------------------------
(* Properties of generate_pipeline_test_vectors                            *)

Finished == pc \in {"done", "error"}
Running == pc \notin {"idle", "done", "error"}

\* side of the region handed to the max-pool stage
Region == IF cfg.n < 5 THEN cfg.n ELSE 5

\* a configuration the specification calls malformed
Malformed ==
    \/ cfg.n <= 0
    \/ cfg.pool_h > Region + 2 * cfg.pool_padding
    \/ cfg.pool_w > Region + 2 * cfg.pool_padding

IsArray(m, r, c) == m.rows = r /\ m.cols = c /\ m.rows * m.cols = Cardinality(DOMAIN m.at)

\* C4: a run with a malformed configuration (N <= 0, or a pool window larger
\* than the padded pool input) ends in an error and returns nothing; a
\* result is returned only with all six arrays, from a valid configuration.
C4_MalformedAborts ==
    /\ (Running /\ Malformed) => ENABLED Next
    /\ (pc # "idle" /\ Malformed) => (pc # "done" /\ ret.kind # "ok")
    /\ (pc = "error") <=> (ret.kind = "error")
    /\ (ret.kind = "ok") =>
          /\ pc = "done" /\ ~Malformed
          /\ ret.val = [A |-> A, B |-> B, matmul |-> C, activated |-> activated,
                        pooled |-> pooled, final |-> final_output]
          /\ IsArray(A, cfg.n, cfg.n) /\ IsArray(B, cfg.n, cfg.n)
          /\ IsArray(C, cfg.n, cfg.n) /\ IsArray(activated, cfg.n, cfg.n)
          /\ pooled.rows > 0 /\ pooled.cols > 0
          /\ IsArray(final_output, pooled.rows, pooled.cols)

\* N = 0 with a window that fits the padding: every stage and every write
\* goes through, and the run still ends in an error
C4_Witness ==
    /\ pc = "error" /\ cfg.n = 0 /\ cfg.pool_padding = 1
    /\ cfg.pool_h = 2 /\ cfg.pool_w = 2
    /\ pooled.rows = 1 /\ pooled.cols = 1
    /\ ret = Err("IndexError")

\* C5: when a run ends in an error, none of the four output files has been
\* created or written.
C5_NoFileOnError ==
    (pc = "error") => \A f \in FileNames : ~files[f].exists

-----------------------------------------------------------------------------

SameAsLast ==
    /\ pc = last.pc /\ ret = last.ret
    /\ A = last.A /\ B = last.B /\ C = last.C
    /\ activated = last.activated /\ pooled = last.pooled
    /\ final_output = last.final_output
    /\ \A f \in {"matrix_north.txt", "matrix_west.txt", "expected_output.txt"} :
          files[f] = last.files[f]

Sampled == cfg.matrix_type \in {"random", "small_int"}

SampleOf(s) ==
    IF cfg.matrix_type = "small_int" THEN -3 + (s % 7)
    ELSE cfg.value_range[1] + (s % (cfg.value_range[2] - cfg.value_range[1] + 1))

\* the i-th state of the generator after np.random.seed(seed)
RECURSIVE SeededState(_, _)
SeededState(seed, i) ==
    IF i = 0 THEN np_random_seed(seed) ELSE RngStep(SeededState(seed, i - 1))

\* C8: two runs with the same seed and configuration produce the same A, B,
\* matmul, activated, pooled and final and the same matrix_north.txt,
\* matrix_west.txt and expected_output.txt; the generator is seeded once, at
\* the start, and A then B are drawn from it with no reseeding in between.
C8_Deterministic ==
    /\ (Finished /\ last.ran) => SameAsLast
    /\ (pc \notin {"idle", "start", "generate"} /\ cfg.n >= 0 /\ Sampled
          /\ cfg.seed # None) =>
          /\ \A ij \in DOMAIN A.at :
                A.at[ij] = SampleOf(SeededState(cfg.seed[1], ij[1] * cfg.n + ij[2] + 1))
          /\ \A ij \in DOMAIN B.at :
                B.at[ij] = SampleOf(SeededState(cfg.seed[1],
                                        cfg.n * cfg.n + ij[1] * cfg.n + ij[2] + 1))

\* C8, for a seed that is not None: two runs with the same seed and
\* configuration produce the same arrays and files, the generator being
\* seeded once at the start and A then B drawn from it in that order; without
\* a seed only the identity and ones kinds, which draw nothing, repeat.
C8_DeterministicWhenSeeded ==
    /\ (Finished /\ last.ran /\ (cfg.seed # None \/ ~Sampled)) => SameAsLast
    /\ (pc \notin {"idle", "start", "generate"} /\ cfg.n >= 0 /\ Sampled
          /\ cfg.seed # None) =>
          /\ \A ij \in DOMAIN A.at :
                A.at[ij] = SampleOf(SeededState(cfg.seed[1], ij[1] * cfg.n + ij[2] + 1))
          /\ \A ij \in DOMAIN B.at :
                B.at[ij] = SampleOf(SeededState(cfg.seed[1],
                                        cfg.n * cfg.n + ij[1] * cfg.n + ij[2] + 1))

\* a second seeded run of random matrices that returned, after a first one
C8_Witness ==
    /\ pc = "done" /\ last.ran /\ last.pc = "done"
    /\ cfg.seed # None /\ cfg.matrix_type = "random" /\ cfg.n = 2
    /\ A # B
    /\ files["matrix_north.txt"].lines # files["matrix_west.txt"].lines

-----------------------------------------------------------------------------

\* C9: in a run that returns, whatever dropout_p is, final equals pooled
\* element for element and in its dimensions; apply_dropout with
\* training_mode False returns its input unchanged.
C9_DropoutIsIdentity ==
    /\ (pc = "done") =>
          /\ ret.val.final.rows = ret.val.pooled.rows
          /\ ret.val.final.cols = ret.val.pooled.cols
          /\ \A ij \in DOMAIN ret.val.pooled.at :
                ret.val.final.at[ij] = ret.val.pooled.at[ij]
          /\ DOMAIN ret.val.final.at = DOMAIN ret.val.pooled.at
    /\ (pc \in {"write_north", "write_west", "write_expected", "write_debug",
                "summary", "return", "done", "error"}
          /\ final_output # NoMatrix) => final_output = pooled
    /\ (fpc = "ret" /\ fcall.fn = "apply_dropout" /\ ~fcall.training_mode) =>
          /\ fres.val.out = fcall.x
          /\ fres.val.rng = fcall.rng

\* a run with dropout_p = 0.5 that returned a pooled array of several
\* values, not all zero
C9_Witness ==
    /\ pc = "done" /\ cfg.dropout_p = 50
    /\ pooled.rows >= 2 /\ pooled.cols >= 2
    /\ \E ij \in DOMAIN pooled.at : pooled.at[ij] # 0
    /\ ret.val.final = ret.val.pooled

-----------------------------------------------------------------------------

\* C10: matmul and activated are N x N; the max-pool input is the top-left
\* min(N,5) x min(N,5) block of activated, with no padding added at the
\* extraction; pooled has floor((min(N,5)+2p-ph)/ph)+1 rows and
\* floor((min(N,5)+2p-pw)/pw)+1 columns.
C10_RegionAndShapes ==
    /\ (pc \notin {"idle", "start", "generate", "matmul"} /\ C # NoMatrix) =>
          IsArray(C, cfg.n, cfg.n)
    /\ (activated # NoMatrix) => IsArray(activated, cfg.n, cfg.n)
    /\ (maxpool_input # NoMatrix) =>
          /\ IsArray(maxpool_input, Region, Region)
          /\ \A i \in 0..(Region - 1), j \in 0..(Region - 1) :
                maxpool_input.at[<<i, j>>] = activated.at[<<i, j>>]
    /\ (pooled # NoMatrix) =>
          /\ pooled.rows =
               ((Region + 2 * cfg.pool_padding - cfg.pool_h) \div cfg.pool_h) + 1
          /\ pooled.cols =
               ((Region + 2 * cfg.pool_padding - cfg.pool_w) \div cfg.pool_w) + 1

\* a run with N above 5 whose activated array differs outside the block
C10_Witness ==
    /\ pc = "done" /\ cfg.n > 5 /\ cfg.pool_padding = 1
    /\ maxpool_input.rows = 5 /\ maxpool_input.cols = 5
    /\ activated.rows = cfg.n
    /\ activated.at[<<5, 5>>] # 0
    /\ pooled.rows = ((5 + 2 - cfg.pool_h) \div cfg.pool_h) + 1

=============================================================================
